---- MODULE Spec2Model ----
(***************************************************************************)
(* The worker pool of frame/pool (pool.go, worker.go).                     *)
(*                                                                         *)
(* One Pool, its client goroutines (callers of Submit, Release, Restart),  *)
(* the goroutines started by Worker.run and the reaper goroutines started  *)
(* by Restart.  A step is one critical section of p.lock, or one access to *)
(* p.running, p.release, p.workerCache, p.cond or a worker's task channel  *)
(* made outside the lock.                                                  *)
(***************************************************************************)
EXTENDS Integers, Sequences, FiniteSets, TLC

\* ------------------------------------------------------------- bounds
Cap == 1          \* the cap given to NewTimePool
Expire == 1       \* the expire given to NewTimePool, in clock units
NClients == 2     \* goroutines calling the pool's API
MaxTasks == 2     \* Submit calls made in one behaviour
MaxTime == 2      \* the clock stops advancing here
NReapers == 2     \* goroutine slots for expireWorker

Clients == 1..NClients
Tasks == 1..MaxTasks
\* A Worker object is made for a Submit call, so MaxTasks objects suffice.
Workers == 1..MaxTasks
Reapers == 1..NReapers

\* The nil func() value on a worker's task channel; tasks are 1..MaxTasks.
NilTask == 0
\* held[c] when client c holds no worker.
NoWorker == 0
\* lock when nobody holds p.lock; a holder is named by ReaperLock.
Unlocked == 0
ReaperLock(r) == NClients + r

VARIABLES
    running,    \* p.running
    workers,    \* p.workers, the idle list, oldest first
    release,    \* len(p.release), a channel of capacity 1
    once,       \* p.once: "new", "doing" (f is running), "done"
    teardowns,  \* how many times the function given to p.once.Do has run
    lock,       \* holder of p.lock across a blocking operation, or Unlocked
    cond,       \* p.cond # nil
    cacheNew,   \* p.workerCache.New # nil
    waiters,    \* p.cond's notify list, first waiter first
    notified,   \* waiters that Signal has woken and that have not yet relocked
    cache,      \* the Worker objects held by p.workerCache
    nworkers,   \* Worker objects allocated so far
    loop,       \* per worker: where its running() goroutine is
    slot,       \* per worker: the content of the channel made for w.task
    cur,        \* per worker: the task its goroutine is executing
    panicked,   \* per worker: its goroutine is unwinding from a task panic
    tail,       \* per worker: the rest of an exited goroutine's deferred func,
                \* "fault" once it dereferenced a nil w.pool
    wref,       \* per worker: w.pool and w.task are not nil
    lastTime,   \* per worker: w.lastTime
    now,        \* time.Now()
    rpc,        \* per reaper slot: "off", "on", "blocked", "stopped"
    rnext,      \* per reaper slot: the time of its ticker's next tick
    pc,         \* per client: where it is in its call
    held,       \* per client: the worker GetWorker returned to Submit
    task,       \* per client: the task of its Submit call
    ret,        \* per client: what its last call returned; "released" when
                \* Release, which returns nothing, has returned
    nextTask,   \* the next task to be submitted
    execs,      \* per task: how many times a worker started executing it
    accepted,   \* tasks whose Submit returned nil
    finished,   \* tasks that returned or panicked
    call        \* the constructor call: its function, arguments and results

vars == <<running, workers, release, once, teardowns, lock, cond, cacheNew,
          waiters, notified, cache, nworkers, loop, slot, cur, panicked, tail,
          wref, lastTime, now, rpc, rnext, pc, held, task, ret, nextTask,
          execs, accepted, finished, call>>

poolVars == <<running, workers, release, once, teardowns, lock, cond, cacheNew,
              waiters, notified, cache, nworkers>>
workerVars == <<loop, slot, cur, panicked, tail, wref, lastTime>>
reaperVars == <<rpc, rnext>>
clientVars == <<pc, held, task, ret>>
taskVars == <<nextTask, execs, accepted, finished>>

\* ------------------------------------------------------------- construction

\* A Go int has 64 bits, more than the model's integers: an int argument is
\* the record [hi, lo] of the value hi * 2^16 + lo, with lo in 0..2^16 - 1.
Half == 65536

\* const DefaultExpire = 5.
DefaultExpire == 5

\* The int of a model integer.
ToInt(n) == [hi |-> n \div Half, lo |-> n % Half]

\* x <= 0 on an int.
NotPositive(x) == x.hi < 0 \/ (x.hi = 0 /\ x.lo = 0)

\* int32(x): the low 32 bits of x, read as a signed number.
Int32(x) ==
    LET h == x.hi % Half
    IN  (IF h >= Half \div 2 THEN h - Half ELSE h) * Half + x.lo

\* NewTimePool(cap, expire): the error tests, then the struct literal.  The
\* pool's expire is time.Duration(expire) * time.Second, held here in seconds,
\* the unit of the model's clock; the product stays within int64 for every
\* expire below 2^31.
NewTimePool(cap, expire) ==
    IF NotPositive(cap)
    THEN [pool |-> FALSE, err |-> "ErrorInValidCap", cap |-> 0, expire |-> 0]
    ELSE IF expire <= 0
    THEN [pool |-> FALSE, err |-> "ErrorInValidExpire", cap |-> 0, expire |-> 0]
    ELSE [pool |-> TRUE, err |-> "nil", cap |-> Int32(cap), expire |-> expire]

\* NewPool(cap): NewTimePool(cap, DefaultExpire).
NewPool(cap) == NewTimePool(cap, DefaultExpire)

\* What a constructor call has not returned yet.
Pending == [pool |-> FALSE, err |-> "none", cap |-> 0, expire |-> 0]

\* NewTimePool(Cap, Expire) with Cap > 0 and Expire > 0: the struct literal
\* sets cap, expire and release; every other field has its zero value, so
\* p.cond is nil, p.workerCache.New is nil, and no goroutine is started.
Init ==
    /\ call = [fn |-> "NewTimePool", cap |-> ToInt(Cap), expire |-> Expire,
               out |-> NewTimePool(ToInt(Cap), Expire)]
    /\ running = 0
    /\ workers = <<>>
    /\ release = 0
    /\ once = "new"
    /\ teardowns = 0
    /\ lock = Unlocked
    /\ cond = FALSE
    /\ cacheNew = FALSE
    /\ waiters = <<>>
    /\ notified = {}
    /\ cache = {}
    /\ nworkers = 0
    /\ loop = [w \in Workers |-> "none"]
    /\ slot = [w \in Workers |-> <<>>]
    /\ cur = [w \in Workers |-> NilTask]
    /\ panicked = [w \in Workers |-> FALSE]
    /\ tail = [w \in Workers |-> "none"]
    /\ wref = [w \in Workers |-> FALSE]
    /\ lastTime = [w \in Workers |-> 0]
    /\ now = 0
    /\ rpc = [r \in Reapers |-> "off"]
    /\ rnext = [r \in Reapers |-> 0]
    /\ pc = [c \in Clients |-> "idle"]
    /\ held = [c \in Clients |-> NoWorker]
    /\ task = [c \in Clients |-> NilTask]
    /\ ret = [c \in Clients |-> "none"]
    /\ nextTask = 1
    /\ execs = [t \in Tasks |-> 0]
    /\ accepted = {}
    /\ finished = {}

\* ------------------------------------------------------------- helpers

Last(s) == s[Len(s)]
Front(s) == SubSeq(s, 1, Len(s) - 1)

\* p.cond.Signal(): wakes the first goroutine of the notify list, if any.
Signal ==
    IF waiters = <<>>
    THEN UNCHANGED <<waiters, notified>>
    ELSE /\ waiters' = Tail(waiters)
         /\ notified' = notified \cup {Head(waiters)}

\* &Worker{pool: p, task: make(chan func(), 1)}: the next unused object.
FreshWorker == IF nworkers < MaxTasks THEN {nworkers + 1} ELSE {}

\* What p.workerCache.Get() may return as a *Worker: an object put back
\* earlier, or the result of New when New is set (sync.Pool may miss or drop
\* what was put).  The empty set stands for the nil interface value.
CacheGet == cache \cup (IF cacheNew THEN FreshWorker ELSE {})

\* w.run() by client c on the worker w it just obtained: incRunning, then
\* go w.running(); the worker is what GetWorker returns to Submit.
Run(c, w) ==
    /\ running' = running + 1
    /\ loop' = [loop EXCEPT ![w] = "recv"]
    /\ cache' = cache \ {w}
    /\ nworkers' = IF w > nworkers THEN w ELSE nworkers
    /\ wref' = IF w > nworkers THEN [wref EXCEPT ![w] = TRUE] ELSE wref
    /\ held' = [held EXCEPT ![c] = w]
    /\ pc' = [pc EXCEPT ![c] = "send"]

\* ------------------------------------------------------------- Submit

\* Submit without its test of len(p.release).
SubmitUnchecked(c) ==
    /\ pc[c] = "idle"
    /\ nextTask <= MaxTasks
    /\ nextTask' = nextTask + 1
    /\ task' = [task EXCEPT ![c] = nextTask]
    /\ ret' = [ret EXCEPT ![c] = "none"]
    /\ pc' = [pc EXCEPT ![c] = "GetWorker"]
    /\ UNCHANGED <<call, poolVars, workerVars, reaperVars, now, held, execs,
                   accepted, finished>>

\* Submit, to its test of len(p.release).
Submit(c) ==
    /\ pc[c] = "idle"
    /\ nextTask <= MaxTasks
    /\ nextTask' = nextTask + 1
    /\ task' = [task EXCEPT ![c] = nextTask]
    /\ IF release > 0
       THEN /\ ret' = [ret EXCEPT ![c] = "ErrorHasClosed"]
            /\ pc' = pc
       ELSE /\ ret' = [ret EXCEPT ![c] = "none"]
            /\ pc' = [pc EXCEPT ![c] = "GetWorker"]
    /\ UNCHANGED <<call, poolVars, workerVars, reaperVars, now, held, execs,
                   accepted, finished>>

\* GetWorker returning the last idle worker without taking it off the list.
GetWorkerKeepsIdle(c) ==
    /\ pc[c] = "GetWorker"
    /\ lock = Unlocked
    /\ IF Len(workers) - 1 >= 0
       THEN /\ held' = [held EXCEPT ![c] = Last(workers)]
            /\ pc' = [pc EXCEPT ![c] = "send"]
       ELSE /\ pc' = [pc EXCEPT ![c] =
                        IF running < Cap THEN "readyWorker" ELSE "waitIdleWorker"]
            /\ UNCHANGED held
    /\ UNCHANGED <<call, running, workers, release, once, teardowns, lock,
                   cond, cacheNew, waiters, notified, cache, nworkers,
                   workerVars, reaperVars, now, task, ret, taskVars>>

\* GetWorker counting the idle worker it hands out as a new one.
GetWorkerCountsIdle(c) ==
    /\ pc[c] = "GetWorker"
    /\ lock = Unlocked
    /\ IF Len(workers) - 1 >= 0
       THEN /\ held' = [held EXCEPT ![c] = Last(workers)]
            /\ workers' = Front(workers)
            /\ running' = running + 1
            /\ pc' = [pc EXCEPT ![c] = "send"]
       ELSE /\ pc' = [pc EXCEPT ![c] =
                        IF running < Cap THEN "readyWorker" ELSE "waitIdleWorker"]
            /\ UNCHANGED <<held, workers, running>>
    /\ UNCHANGED <<call, release, once, teardowns, lock, cond, cacheNew,
                   waiters, notified, cache, nworkers, workerVars, reaperVars,
                   now, task, ret, taskVars>>

\* GetWorker with its capacity test off by one (p.running <= p.cap).
GetWorkerOffByOne(c) ==
    /\ pc[c] = "GetWorker"
    /\ lock = Unlocked
    /\ IF Len(workers) - 1 >= 0
       THEN /\ held' = [held EXCEPT ![c] = Last(workers)]
            /\ workers' = Front(workers)
            /\ pc' = [pc EXCEPT ![c] = "send"]
       ELSE /\ pc' = [pc EXCEPT ![c] =
                        IF running <= Cap THEN "readyWorker" ELSE "waitIdleWorker"]
            /\ UNCHANGED <<held, workers>>
    /\ UNCHANGED <<call, running, release, once, teardowns, lock, cond, cacheNew,
                   waiters, notified, cache, nworkers, workerVars, reaperVars,
                   now, task, ret, taskVars>>

\* GetWorker's critical section: pop the last idle worker, or leave with the
\* decision taken on p.running < p.cap.
GetWorker(c) ==
    /\ pc[c] = "GetWorker"
    /\ lock = Unlocked
    /\ IF Len(workers) - 1 >= 0
       THEN /\ held' = [held EXCEPT ![c] = Last(workers)]
            /\ workers' = Front(workers)
            /\ pc' = [pc EXCEPT ![c] = "send"]
       ELSE /\ pc' = [pc EXCEPT ![c] =
                        IF running < Cap THEN "readyWorker" ELSE "waitIdleWorker"]
            /\ UNCHANGED <<held, workers>>
    /\ UNCHANGED <<call, running, release, once, teardowns, lock, cond, cacheNew,
                   waiters, notified, cache, nworkers, workerVars, reaperVars,
                   now, task, ret, taskVars>>

\* readyWorker, after the unlock: w = p.workerCache.Get().(*Worker); w.run().
\* The type assertion panics on the nil interface value, and the panic leaves
\* Submit.
ReadyWorker(c) ==
    /\ pc[c] = "readyWorker"
    /\ IF cache = {} /\ ~cacheNew
       THEN /\ pc' = [pc EXCEPT ![c] = "idle"]
            /\ ret' = [ret EXCEPT ![c] = "panic"]
            /\ UNCHANGED <<running, loop, cache, nworkers, wref, held>>
       ELSE /\ \E w \in CacheGet : Run(c, w)
            /\ ret' = ret
    /\ UNCHANGED <<call, workers, release, once, teardowns, lock, cond, cacheNew,
                   waiters, notified, slot, cur, panicked, tail, lastTime,
                   reaperVars, now, task, taskVars>>

\* waitIdleWorker: p.lock.Lock(); p.cond.Wait().  Wait joins the notify list
\* and unlocks; on a nil p.cond the call panics with the lock held.
WaitIdleWorker(c) ==
    /\ pc[c] = "waitIdleWorker"
    /\ lock = Unlocked
    /\ IF cond
       THEN /\ waiters' = Append(waiters, c)
            /\ pc' = [pc EXCEPT ![c] = "condWait"]
            /\ UNCHANGED <<lock, ret>>
       ELSE /\ lock' = c
            /\ pc' = [pc EXCEPT ![c] = "idle"]
            /\ ret' = [ret EXCEPT ![c] = "panic"]
            /\ UNCHANGED waiters
    /\ UNCHANGED <<call, running, workers, release, once, teardowns, cond, cacheNew,
                   notified, cache, nworkers, workerVars, reaperVars, now,
                   held, task, taskVars>>

\* A waitIdleWorker that returns the last idle worker and leaves it in
\* p.workers.
CondWakeKeepsIdle(c) ==
    /\ pc[c] = "condWait"
    /\ c \in notified
    /\ lock = Unlocked
    /\ notified' = notified \ {c}
    /\ IF Len(workers) - 1 < 0
       THEN /\ pc' = [pc EXCEPT ![c] = "recheck"]
            /\ UNCHANGED held
       ELSE /\ held' = [held EXCEPT ![c] = Last(workers)]
            /\ pc' = [pc EXCEPT ![c] = "send"]
    /\ UNCHANGED <<call, running, workers, release, once, teardowns, lock, cond,
                   cacheNew, waiters, cache, nworkers, workerVars, reaperVars,
                   now, task, ret, taskVars>>

\* The return of p.cond.Wait() with the lock held again, and the critical
\* section after it: pop the last idle worker, or unlock with none.
CondWake(c) ==
    /\ pc[c] = "condWait"
    /\ c \in notified
    /\ lock = Unlocked
    /\ notified' = notified \ {c}
    /\ IF Len(workers) - 1 < 0
       THEN /\ pc' = [pc EXCEPT ![c] = "recheck"]
            /\ UNCHANGED <<held, workers>>
       ELSE /\ held' = [held EXCEPT ![c] = Last(workers)]
            /\ workers' = Front(workers)
            /\ pc' = [pc EXCEPT ![c] = "send"]
    /\ UNCHANGED <<call, running, release, once, teardowns, lock, cond, cacheNew,
                   waiters, cache, nworkers, workerVars, reaperVars, now,
                   task, ret, taskVars>>

\* waitIdleWorker after unlocking with no idle worker: below capacity it takes
\* a worker from the cache, or makes one when Get returns nil, and runs it;
\* otherwise it calls itself.
Recheck(c) ==
    /\ pc[c] = "recheck"
    /\ IF running < Cap
       THEN \E w \in cache \cup FreshWorker : Run(c, w)
       ELSE /\ pc' = [pc EXCEPT ![c] = "waitIdleWorker"]
            /\ UNCHANGED <<running, loop, cache, nworkers, wref, held>>
    /\ UNCHANGED <<call, workers, release, once, teardowns, lock, cond, cacheNew,
                   waiters, notified, slot, cur, panicked, tail, lastTime,
                   reaperVars, now, task, ret, taskVars>>

\* w.task <- task; return nil.  The send blocks while the channel is full, and
\* for ever on a nil w.task.
Send(c) ==
    /\ pc[c] = "send"
    /\ wref[held[c]]
    /\ slot[held[c]] = <<>>
    /\ slot' = [slot EXCEPT ![held[c]] = <<task[c]>>]
    /\ accepted' = accepted \cup {task[c]}
    /\ ret' = [ret EXCEPT ![c] = "nil"]
    /\ held' = [held EXCEPT ![c] = NoWorker]
    /\ pc' = [pc EXCEPT ![c] = "idle"]
    /\ UNCHANGED <<call, poolVars, loop, cur, panicked, tail, wref, lastTime,
                   reaperVars, now, task, nextTask, execs, finished>>

\* ------------------------------------------------------------- Worker

\* for f := range w.task: a receive.  nil makes running() return; anything
\* else is called.
Receive(w) ==
    /\ loop[w] = "recv"
    /\ slot[w] # <<>>
    /\ slot' = [slot EXCEPT ![w] = <<>>]
    /\ IF Head(slot[w]) = NilTask
       THEN /\ loop' = [loop EXCEPT ![w] = "exit"]
            /\ UNCHANGED <<cur, execs>>
       ELSE /\ loop' = [loop EXCEPT ![w] = "exec"]
            /\ cur' = [cur EXCEPT ![w] = Head(slot[w])]
            /\ execs' = [execs EXCEPT ![Head(slot[w])] = @ + 1]
    /\ UNCHANGED <<call, poolVars, panicked, tail, wref, lastTime, reaperVars, now,
                   clientVars, nextTask, accepted, finished>>

\* f() returns, and PutWorker starts: w.lastTime = time.Now().
TaskReturn(w) ==
    /\ loop[w] = "exec"
    /\ loop' = [loop EXCEPT ![w] = "PutWorker"]
    /\ finished' = finished \cup {cur[w]}
    /\ cur' = [cur EXCEPT ![w] = NilTask]
    /\ lastTime' = [lastTime EXCEPT ![w] = now]
    /\ UNCHANGED <<call, poolVars, slot, panicked, tail, wref, reaperVars, now,
                   clientVars, nextTask, execs, accepted>>

\* f() panics: running() unwinds into its deferred func.
TaskPanic(w) ==
    /\ loop[w] = "exec"
    /\ loop' = [loop EXCEPT ![w] = "exit"]
    /\ panicked' = [panicked EXCEPT ![w] = TRUE]
    /\ finished' = finished \cup {cur[w]}
    /\ cur' = [cur EXCEPT ![w] = NilTask]
    /\ UNCHANGED <<call, poolVars, slot, tail, wref, lastTime, reaperVars, now,
                   clientVars, nextTask, execs, accepted>>

\* PutWorker in a running() that returns after its first task instead of
\* ranging over w.task.
PutWorkerThenReturn(w) ==
    /\ loop[w] = "PutWorker"
    /\ lock = Unlocked
    /\ workers' = Append(workers, w)
    /\ Signal
    /\ loop' = [loop EXCEPT ![w] = "none"]
    /\ UNCHANGED <<call, running, release, once, teardowns, lock, cond, cacheNew,
                   cache, nworkers, slot, cur, panicked, tail, wref, lastTime,
                   reaperVars, now, clientVars, taskVars>>

\* PutWorker without its p.cond.Signal().
PutWorkerNoSignal(w) ==
    /\ loop[w] = "PutWorker"
    /\ lock = Unlocked
    /\ workers' = Append(workers, w)
    /\ loop' = [loop EXCEPT ![w] = "recv"]
    /\ UNCHANGED <<call, running, release, once, teardowns, lock, cond, cacheNew,
                   waiters, notified, cache, nworkers, slot, cur, panicked,
                   tail, wref, lastTime, reaperVars, now, clientVars, taskVars>>

\* PutWorker's critical section: append, Signal; then back to the receive.
PutWorker(w) ==
    /\ loop[w] = "PutWorker"
    /\ lock = Unlocked
    /\ workers' = Append(workers, w)
    /\ Signal
    /\ loop' = [loop EXCEPT ![w] = "recv"]
    /\ UNCHANGED <<call, running, release, once, teardowns, lock, cond, cacheNew,
                   cache, nworkers, slot, cur, panicked, tail, wref, lastTime,
                   reaperVars, now, clientVars, taskVars>>

\* A deferred func whose first statement leaves p.running alone.
DecRunningOmitted(w) ==
    /\ loop[w] = "exit"
    /\ loop' = [loop EXCEPT ![w] = "cachePut"]
    /\ UNCHANGED <<call, poolVars, slot, cur, panicked, tail, wref, lastTime,
                   reaperVars, now, clientVars, taskVars>>

\* A deferred func that calls w.pool.decRunning() twice.
DecRunningTwice(w) ==
    /\ loop[w] = "exit"
    /\ running' = running - 2
    /\ loop' = [loop EXCEPT ![w] = "cachePut"]
    /\ UNCHANGED <<call, workers, release, once, teardowns, lock, cond, cacheNew,
                   waiters, notified, cache, nworkers, slot, cur, panicked,
                   tail, wref, lastTime, reaperVars, now, clientVars, taskVars>>

\* The deferred func of running(), first statement: w.pool.decRunning().
DecRunning(w) ==
    /\ loop[w] = "exit"
    /\ running' = running - 1
    /\ loop' = [loop EXCEPT ![w] = "cachePut"]
    /\ UNCHANGED <<call, workers, release, once, teardowns, lock, cond, cacheNew,
                   waiters, notified, cache, nworkers, slot, cur, panicked,
                   tail, wref, lastTime, reaperVars, now, clientVars, taskVars>>

\* A deferred func without its w.pool.workerCache.Put(w).
CachePutOmitted(w) ==
    /\ loop[w] = "cachePut"
    /\ tail[w] = "none"
    /\ loop' = [loop EXCEPT ![w] = "none"]
    /\ tail' = [tail EXCEPT ![w] = IF panicked[w] THEN "recover" ELSE "signal"]
    /\ panicked' = [panicked EXCEPT ![w] = FALSE]
    /\ UNCHANGED <<call, running, workers, release, once, teardowns, lock, cond,
                   cacheNew, waiters, notified, cache, nworkers, slot, cur,
                   wref, lastTime, reaperVars, now, clientVars, taskVars>>

\* Second statement: w.pool.workerCache.Put(w).  From here the object can be
\* handed out and run again while this goroutine finishes its deferred func.
CachePut(w) ==
    /\ loop[w] = "cachePut"
    /\ tail[w] = "none"
    /\ cache' = cache \cup {w}
    /\ loop' = [loop EXCEPT ![w] = "none"]
    /\ tail' = [tail EXCEPT ![w] = IF panicked[w] THEN "recover" ELSE "signal"]
    /\ panicked' = [panicked EXCEPT ![w] = FALSE]
    /\ UNCHANGED <<call, running, workers, release, once, teardowns, lock, cond,
                   cacheNew, waiters, notified, nworkers, slot, cur, wref,
                   lastTime, reaperVars, now, clientVars, taskVars>>

\* recover() returned the panic value: PanicHandler or the logger's Error.
\* w.pool is read without p.lock; when the object was taken from the cache,
\* made idle again and cleared by Release in the meantime, the read races
\* with Release's w.pool = nil: it sees the old pointer, or nil, and then the
\* goroutine faults in its deferred func.
Recover(w) ==
    /\ tail[w] = "recover"
    /\ \/ tail' = [tail EXCEPT ![w] = "signal"]
       \/ ~wref[w] /\ tail' = [tail EXCEPT ![w] = "fault"]
    /\ UNCHANGED <<call, poolVars, loop, slot, cur, panicked, wref, lastTime,
                   reaperVars, now, clientVars, taskVars>>

\* Last statement of the deferred func: w.pool.cond.Signal(), with the same
\* unlocked read of w.pool.
ExitSignal(w) ==
    /\ tail[w] = "signal"
    /\ \/ Signal /\ tail' = [tail EXCEPT ![w] = "none"]
       \/ /\ ~wref[w]
          /\ tail' = [tail EXCEPT ![w] = "fault"]
          /\ UNCHANGED <<waiters, notified>>
    /\ UNCHANGED <<call, running, workers, release, once, teardowns, lock, cond,
                   cacheNew, cache, nworkers, loop, slot, cur, panicked, wref,
                   lastTime, reaperVars, now, clientVars, taskVars>>

\* ------------------------------------------------------------- reaper

\* The workers at the front of the idle list that expireWorker's loop passes
\* before its break: those with time.Now().Sub(w.lastTime) > p.expire.
RECURSIVE StalePrefix(_)
StalePrefix(ws) ==
    IF ws = <<>> \/ now - lastTime[Head(ws)] <= Expire
    THEN 0
    ELSE 1 + StalePrefix(Tail(ws))

\* An expireWorker whose loop has no expiry test: every idle worker is sent
\* nil and removed.
ExpireWorkerEvictsAll(r) ==
    /\ rpc[r] = "on"
    /\ now >= rnext[r]
    /\ IF release > 0
       THEN /\ rpc' = [rpc EXCEPT ![r] = "stopped"]
            /\ UNCHANGED <<rnext, lock, workers, slot>>
       ELSE /\ lock = Unlocked
            /\ slot' = [w \in Workers |->
                          IF \E i \in 1..Len(workers) : workers[i] = w
                          THEN <<NilTask>> ELSE slot[w]]
            /\ workers' = <<>>
            /\ rnext' = [rnext EXCEPT ![r] = @ + Expire]
            /\ UNCHANGED <<lock, rpc>>
    /\ UNCHANGED <<call, running, release, once, teardowns, cond, cacheNew, waiters,
                   notified, cache, nworkers, loop, cur, panicked, tail, wref,
                   lastTime, now, clientVars, taskVars>>

\* One tick of expireWorker's ticker: break when the pool is closed, else the
\* critical section.  Each stale worker is sent nil; the send blocks, with
\* the lock held, on a worker whose channel is full.
ExpireWorker(r) ==
    /\ rpc[r] = "on"
    /\ now >= rnext[r]
    /\ IF release > 0
       THEN /\ rpc' = [rpc EXCEPT ![r] = "stopped"]
            /\ UNCHANGED <<rnext, lock, workers, slot>>
       ELSE /\ lock = Unlocked
            /\ LET n == StalePrefix(workers)
                   full == {i \in 1..n : slot[workers[i]] # <<>>}
                   sent == IF full = {} THEN n
                           ELSE (CHOOSE i \in full : \A j \in full : i <= j) - 1
               IN  /\ slot' = [w \in Workers |->
                                 IF \E i \in 1..sent : workers[i] = w
                                 THEN <<NilTask>> ELSE slot[w]]
                   /\ IF full = {}
                      THEN /\ workers' = SubSeq(workers, n + 1, Len(workers))
                           /\ rnext' = [rnext EXCEPT ![r] = @ + Expire]
                           /\ UNCHANGED <<lock, rpc>>
                      ELSE /\ lock' = ReaperLock(r)
                           /\ rpc' = [rpc EXCEPT ![r] = "blocked"]
                           /\ UNCHANGED <<workers, rnext>>
    /\ UNCHANGED <<call, running, release, once, teardowns, cond, cacheNew, waiters,
                   notified, cache, nworkers, loop, cur, panicked, tail, wref,
                   lastTime, now, clientVars, taskVars>>

\* Time passes.
Tick ==
    /\ now < MaxTime
    /\ now' = now + 1
    /\ UNCHANGED <<call, poolVars, workerVars, reaperVars, clientVars, taskVars>>

\* ------------------------------------------------------------- Release

\* Release calling f directly, without p.once.
ReleaseWithoutOnce(c) ==
    /\ pc[c] = "idle"
    /\ once' = "doing"
    /\ pc' = [pc EXCEPT ![c] = "teardown"]
    /\ ret' = [ret EXCEPT ![c] = "none"]
    /\ UNCHANGED <<call, running, workers, release, teardowns, lock, cond, cacheNew,
                   waiters, notified, cache, nworkers, workerVars, reaperVars,
                   now, held, task, taskVars>>

\* p.once.Do(f): the first caller runs f, a caller arriving while f runs waits
\* for it, a later caller returns at once.
Release(c) ==
    /\ pc[c] = "idle"
    /\ once' = IF once = "new" THEN "doing" ELSE once
    /\ pc' = [pc EXCEPT ![c] = CASE once = "new" -> "teardown"
                                 [] once = "doing" -> "onceWait"
                                 [] OTHER -> "idle"]
    /\ ret' = [ret EXCEPT ![c] = IF once = "done" THEN "released" ELSE "none"]
    /\ UNCHANGED <<call, running, workers, release, teardowns, lock, cond, cacheNew,
                   waiters, notified, cache, nworkers, workerVars, reaperVars,
                   now, held, task, taskVars>>

\* A teardown that clears the references of every worker, idle or not.
TeardownClearsAll(c) ==
    /\ pc[c] = "teardown"
    /\ lock = Unlocked
    /\ wref' = [w \in Workers |-> FALSE]
    /\ workers' = <<>>
    /\ teardowns' = teardowns + 1
    /\ pc' = [pc EXCEPT ![c] = "closeSignal"]
    /\ UNCHANGED <<call, running, release, once, lock, cond, cacheNew,
                   waiters, notified, cache, nworkers, loop, slot, cur,
                   panicked, tail, lastTime, reaperVars, now, held, task, ret,
                   taskVars>>

\* f's critical section: every idle worker loses its task and pool
\* references, and p.workers becomes nil.
Teardown(c) ==
    /\ pc[c] = "teardown"
    /\ lock = Unlocked
    /\ wref' = [w \in Workers |->
                  IF \E i \in 1..Len(workers) : workers[i] = w
                  THEN FALSE ELSE wref[w]]
    /\ workers' = <<>>
    /\ teardowns' = teardowns + 1
    /\ pc' = [pc EXCEPT ![c] = "closeSignal"]
    /\ UNCHANGED <<call, running, release, once, lock, cond, cacheNew, waiters,
                   notified, cache, nworkers, loop, slot, cur, panicked, tail,
                   lastTime, reaperVars, now, held, task, ret, taskVars>>

\* p.release <- sig{}, blocking while the channel is full; f is over.
CloseSignal(c) ==
    /\ pc[c] = "closeSignal"
    /\ release < 1
    /\ release' = release + 1
    /\ once' = "done"
    /\ pc' = [pc EXCEPT ![c] = "idle"]
    /\ ret' = [ret EXCEPT ![c] = "released"]
    /\ UNCHANGED <<call, running, workers, teardowns, lock, cond, cacheNew, waiters,
                   notified, cache, nworkers, workerVars, reaperVars, now,
                   held, task, taskVars>>

\* The return of a caller that waited in p.once.Do.
OnceWait(c) ==
    /\ pc[c] = "onceWait"
    /\ once = "done"
    /\ pc' = [pc EXCEPT ![c] = "idle"]
    /\ ret' = [ret EXCEPT ![c] = "released"]
    /\ UNCHANGED <<call, poolVars, workerVars, reaperVars, now, held, task,
                   taskVars>>

\* ------------------------------------------------------------- Restart

\* A Restart that launches a reaper whether or not the pool is closed.
RestartAlwaysSpawns(c) ==
    /\ pc[c] = "idle"
    /\ IF release <= 0
       THEN /\ ret' = [ret EXCEPT ![c] = "true"]
            /\ pc' = pc
            /\ \E r \in Reapers :
                 /\ rpc[r] = "off"
                 /\ rpc' = [rpc EXCEPT ![r] = "on"]
                 /\ rnext' = [rnext EXCEPT ![r] = now + Expire]
       ELSE /\ ret' = [ret EXCEPT ![c] = "none"]
            /\ pc' = [pc EXCEPT ![c] = "restartRecv"]
            /\ UNCHANGED <<rpc, rnext>>
    /\ UNCHANGED <<call, poolVars, workerVars, now, held, task, taskVars>>

\* Restart, to its test of len(p.release).
Restart(c) ==
    /\ pc[c] = "idle"
    /\ IF release <= 0
       THEN /\ ret' = [ret EXCEPT ![c] = "true"]
            /\ pc' = pc
       ELSE /\ ret' = [ret EXCEPT ![c] = "none"]
            /\ pc' = [pc EXCEPT ![c] = "restartRecv"]
    /\ UNCHANGED <<call, poolVars, workerVars, reaperVars, now, held, task,
                   taskVars>>

\* _ = <-p.release; go p.expireWorker(); return true.
RestartRecv(c) ==
    /\ pc[c] = "restartRecv"
    /\ release > 0
    /\ release' = release - 1
    /\ \E r \in Reapers :
         /\ rpc[r] = "off"
         /\ \A q \in Reapers : q < r => rpc[q] # "off"
         /\ rpc' = [rpc EXCEPT ![r] = "on"]
         /\ rnext' = [rnext EXCEPT ![r] = now + Expire]
    /\ pc' = [pc EXCEPT ![c] = "idle"]
    /\ ret' = [ret EXCEPT ![c] = "true"]
    /\ UNCHANGED <<call, running, workers, once, teardowns, lock, cond, cacheNew,
                   waiters, notified, cache, nworkers, workerVars, now, held,
                   task, taskVars>>

\* ------------------------------------------------------------- specifications

\* The steps of a pool built by NewTimePool: with p.workerCache.New nil no
\* worker is ever made, so the steps of workers are not among them.
Next ==
    \/ \E c \in Clients : Submit(c)
    \/ \E c \in Clients : GetWorker(c)
    \/ \E c \in Clients : ReadyWorker(c)
    \/ \E c \in Clients : Release(c)
    \/ \E c \in Clients : Teardown(c)
    \/ \E c \in Clients : CloseSignal(c)
    \/ \E c \in Clients : OnceWait(c)
    \/ \E c \in Clients : Restart(c)
    \/ \E c \in Clients : RestartRecv(c)
    \/ \E r \in Reapers : ExpireWorker(r)
    \/ Tick

Spec == Init /\ [][Next]_vars

\* The pool with the two fields the acquisition path relies on assigned:
\* p.cond = sync.NewCond(&p.lock), and p.workerCache.New returning
\* &Worker{pool: p, task: make(chan func(), 1)}.
InitWired ==
    /\ call = [fn |-> "NewTimePool", cap |-> ToInt(Cap), expire |-> Expire,
               out |-> NewTimePool(ToInt(Cap), Expire)]
    /\ running = 0
    /\ workers = <<>>
    /\ release = 0
    /\ once = "new"
    /\ teardowns = 0
    /\ lock = Unlocked
    /\ cond = TRUE
    /\ cacheNew = TRUE
    /\ waiters = <<>>
    /\ notified = {}
    /\ cache = {}
    /\ nworkers = 0
    /\ loop = [w \in Workers |-> "none"]
    /\ slot = [w \in Workers |-> <<>>]
    /\ cur = [w \in Workers |-> NilTask]
    /\ panicked = [w \in Workers |-> FALSE]
    /\ tail = [w \in Workers |-> "none"]
    /\ wref = [w \in Workers |-> FALSE]
    /\ lastTime = [w \in Workers |-> 0]
    /\ now = 0
    /\ rpc = [r \in Reapers |-> "off"]
    /\ rnext = [r \in Reapers |-> 0]
    /\ pc = [c \in Clients |-> "idle"]
    /\ held = [c \in Clients |-> NoWorker]
    /\ task = [c \in Clients |-> NilTask]
    /\ ret = [c \in Clients |-> "none"]
    /\ nextTask = 1
    /\ execs = [t \in Tasks |-> 0]
    /\ accepted = {}
    /\ finished = {}

NextWired ==
    \/ \E c \in Clients : Submit(c)
    \/ \E c \in Clients : GetWorker(c)
    \/ \E c \in Clients : ReadyWorker(c)
    \/ \E c \in Clients : WaitIdleWorker(c)
    \/ \E c \in Clients : CondWake(c)
    \/ \E c \in Clients : Recheck(c)
    \/ \E c \in Clients : Send(c)
    \/ \E w \in Workers : Receive(w)
    \/ \E w \in Workers : TaskReturn(w)
    \/ \E w \in Workers : TaskPanic(w)
    \/ \E w \in Workers : PutWorker(w)
    \/ \E w \in Workers : DecRunning(w)
    \/ \E w \in Workers : CachePut(w)
    \/ \E w \in Workers : Recover(w)
    \/ \E w \in Workers : ExitSignal(w)
    \/ \E c \in Clients : Release(c)
    \/ \E c \in Clients : Teardown(c)
    \/ \E c \in Clients : CloseSignal(c)
    \/ \E c \in Clients : OnceWait(c)
    \/ \E c \in Clients : Restart(c)
    \/ \E c \in Clients : RestartRecv(c)
    \/ \E r \in Reapers : ExpireWorker(r)
    \/ Tick

SpecWired == InitWired /\ [][NextWired]_vars

\* The arguments given to the constructors: capacities and expiries around 0,
\* and capacities around 2^16, 2^31 and 2^32.
CapArgs ==
    {[hi |-> h, lo |-> l] : h \in {-1, 0, 1, 32767, 32768, 65536},
                            l \in {0, 1, 2, Half - 1}}
ExpireArgs == {-1, 0, 1, 2, DefaultExpire}

\* Before a constructor call: no pool yet, every field at its zero value.
InitNew ==
    /\ call \in [fn : {"NewPool", "NewTimePool"}, cap : CapArgs,
                  expire : ExpireArgs, out : {Pending}]
    /\ running = 0
    /\ workers = <<>>
    /\ release = 0
    /\ once = "new"
    /\ teardowns = 0
    /\ lock = Unlocked
    /\ cond = FALSE
    /\ cacheNew = FALSE
    /\ waiters = <<>>
    /\ notified = {}
    /\ cache = {}
    /\ nworkers = 0
    /\ loop = [w \in Workers |-> "none"]
    /\ slot = [w \in Workers |-> <<>>]
    /\ cur = [w \in Workers |-> NilTask]
    /\ panicked = [w \in Workers |-> FALSE]
    /\ tail = [w \in Workers |-> "none"]
    /\ wref = [w \in Workers |-> FALSE]
    /\ lastTime = [w \in Workers |-> 0]
    /\ now = 0
    /\ rpc = [r \in Reapers |-> "off"]
    /\ rnext = [r \in Reapers |-> 0]
    /\ pc = [c \in Clients |-> "idle"]
    /\ held = [c \in Clients |-> NoWorker]
    /\ task = [c \in Clients |-> NilTask]
    /\ ret = [c \in Clients |-> "none"]
    /\ nextTask = 1
    /\ execs = [t \in Tasks |-> 0]
    /\ accepted = {}
    /\ finished = {}

\* The call NewTimePool(cap, expire) returns.
CallNewTimePool ==
    /\ call.fn = "NewTimePool"
    /\ call.out = Pending
    /\ call' = [call EXCEPT !.out = NewTimePool(call.cap, call.expire)]
    /\ UNCHANGED <<poolVars, workerVars, reaperVars, now, clientVars, taskVars>>

\* The call NewPool(cap) returns.
CallNewPool ==
    /\ call.fn = "NewPool"
    /\ call.out = Pending
    /\ call' = [call EXCEPT !.out = NewPool(call.cap)]
    /\ UNCHANGED <<poolVars, workerVars, reaperVars, now, clientVars, taskVars>>

NextNew == CallNewTimePool \/ CallNewPool

SpecNew == InitNew /\ [][NextNew]_vars

\* ------------------------------------------------------------- claims

\* Running(): atomic.LoadInt32(&p.running).
Running == running

AtCapacityUnfinished == Cardinality(accepted) >= Cap /\ finished = {}

Fairness ==
    /\ \A c \in Clients :
         /\ WF_vars(GetWorker(c))
         /\ WF_vars(ReadyWorker(c))
         /\ WF_vars(WaitIdleWorker(c))
         /\ WF_vars(CondWake(c))
         /\ WF_vars(Recheck(c))
         /\ WF_vars(Send(c))
         /\ WF_vars(Teardown(c))
         /\ WF_vars(CloseSignal(c))
         /\ WF_vars(OnceWait(c))
         /\ WF_vars(RestartRecv(c))
    /\ \A w \in Workers :
         /\ WF_vars(Receive(w))
         /\ WF_vars(PutWorker(w))
         /\ WF_vars(DecRunning(w))
         /\ WF_vars(CachePut(w))
         /\ WF_vars(Recover(w))
         /\ WF_vars(ExitSignal(w))
    /\ \A r \in Reapers : WF_vars(ExpireWorker(r))

FairSpecWired == SpecWired /\ Fairness

\* No goroutine of the pool has a step to take: every client is between calls
\* or waits on p.cond without having been signalled, every worker goroutine
\* waits on an empty channel or does not exist, and no reaper runs.
Quiescent ==
    /\ \A c \in Clients : pc[c] \in {"idle", "condWait"}
    /\ notified = {}
    /\ \A w \in Workers :
         /\ loop[w] \in {"none", "recv"}
         /\ loop[w] = "recv" => slot[w] = <<>>
         /\ tail[w] = "none"
    /\ \A r \in Reapers : rpc[r] = "off"

Holders(t) == {w \in Workers : slot[w] = <<t>> \/ cur[w] = t}

IsClosed == release > 0

\* Client c's call of Submit begins in this step.
SubmitBegins(c) == pc[c] = "idle" /\ nextTask' = nextTask + 1 /\ task'[c] = nextTask

\* C5: on a closed pool Submit returns ErrorHasClosed in one step that
\* acquires and makes no worker and leaves p.running and the idle list alone,
\* and the refused task is never accepted or executed.
C5_ClosedSubmitRefused ==
    /\ [][\A c \in Clients :
            SubmitBegins(c) /\ IsClosed =>
               /\ ret'[c] = "ErrorHasClosed"
               /\ pc'[c] = "idle"
               /\ UNCHANGED <<poolVars, workerVars, held, execs, accepted>>]_vars
    /\ [](\A c \in Clients :
            ret[c] = "ErrorHasClosed" =>
               task[c] \notin accepted /\ execs[task[c]] = 0)

\* A Submit call was refused on the closed pool.
C5_Witness ==
    \E c \in Clients :
        ret[c] = "ErrorHasClosed" /\ pc[c] = "idle" /\ IsClosed

\* Client c is inside a call of Release.
InRelease(c) == pc[c] \in {"teardown", "closeSignal", "onceWait"}

ReleaseReturns(c) ==
    /\ pc[c] \in {"idle", "closeSignal"}
    /\ ret[c] # "released"
    /\ ret'[c] = "released"

\* C7: when a call of Release returns the pool is closed, also for a Release
\* that follows an earlier Release and Restart.
C7_ReleaseCloses ==
    [][\A c \in Clients : ReleaseReturns(c) => IsClosed']_vars

\* Every goroutine of the pool but the reapers is at rest: clients are between
\* calls or wait on p.cond unsignalled, worker goroutines wait on an empty
\* channel or do not exist.
AtRest ==
    /\ \A c \in Clients : pc[c] \in {"idle", "condWait"}
    /\ notified = {}
    /\ \A w \in Workers :
         /\ loop[w] \in {"none", "recv"}
         /\ loop[w] = "recv" => slot[w] = <<>>
         /\ tail[w] = "none"

\* Client c is the only client that has ever called the pool, so its calls
\* followed one another.
OnlyCaller(c) ==
    \A d \in Clients \ {c} : pc[d] = "idle" /\ ret[d] = "none"

RestartReturnsAtOnce(c) ==
    /\ pc[c] = "idle"
    /\ ret[c] # "true"
    /\ ret'[c] = "true"

\* C9: Restart on a pool that is not closed returns true and changes nothing:
\* the close signal, the idle list, the running count and the reapers are as
\* before, and no reaper is ever started while the pool is open.
C9_RestartOpenNoop ==
    /\ [][\A c \in Clients :
             RestartReturnsAtOnce(c) =>
                /\ ~IsClosed
                /\ pc'[c] = "idle"
                /\ UNCHANGED <<poolVars, workerVars, reaperVars, held, task,
                               taskVars>>]_vars
    /\ [][\A c \in Clients :
             pc[c] = "idle" /\ pc'[c] = "restartRecv" => IsClosed]_vars
    /\ [][\A r \in Reapers :
             rpc[r] = "off" /\ rpc'[r] = "on" => IsClosed]_vars

C9_Witness ==
    \E c \in Clients :
        pc[c] = "idle" /\ ret[c] = "true" /\ once = "new" /\ ~IsClosed

\* C10, the hand-off: a worker returned by the acquisition has a task channel
\* that is not nil and is empty, so the send of Submit does not block.
SendNeverBlocks ==
    \A c \in Clients : pc[c] = "send" => wref[held[c]] /\ slot[held[c]] = <<>>

\* C10, the suspension: a Submit call suspends in p.cond.Wait() only in a
\* state where the pool is at capacity and has no idle worker.
SuspendsOnlyAtCapacity ==
    [][\A c \in Clients :
         pc[c] = "waitIdleWorker" /\ pc'[c] = "condWait" =>
            workers = <<>> /\ running >= Cap]_vars

ExitedByPanic ==
    /\ finished # {}
    /\ \A w \in Workers : loop[w] = "none"
    /\ \A r \in Reapers : rpc[r] = "off"

PanicStep(w) == loop[w] = "exec" /\ ~panicked[w] /\ panicked'[w]

\* C12, containment: the step in which a task panics changes the loop of the
\* worker that ran it and nothing of the close signal, the idle list or the
\* other workers.
PanicContained ==
    [][\A w \in Workers :
         PanicStep(w) =>
            /\ loop'[w] = "exit"
            /\ UNCHANGED <<release, workers>>
            /\ \A v \in Workers \ {w} :
                 loop'[v] = loop[v] /\ slot'[v] = slot[v] /\ cur'[v] = cur[v]]_vars

\* C12, handling: a panic that awaits its recover() is given up only to the
\* step that invokes PanicHandler or the logger's Error, which is taken once
\* and changes nothing of the close signal, the idle list or any worker's
\* loop.
PanicHandledOnce ==
    [][\A w \in Workers :
         /\ panicked[w] /\ ~panicked'[w] => tail'[w] = "recover"
         /\ tail[w] # "recover" /\ tail'[w] = "recover" => panicked[w]
         /\ tail[w] = "recover" /\ tail'[w] # "recover" =>
              /\ tail'[w] = "signal"
              /\ UNCHANGED <<release, workers, loop, slot, cur>>]_vars

Stale(w) == now - lastTime[w] > Expire

\* The workers of the idle list.
Idle == {workers[i] : i \in 1..Len(workers)}

Evicts(w) == slot[w] # <<NilTask>> /\ slot'[w] = <<NilTask>>

\* Worker w, evicted, runs the first statement of its deferred func in this
\* step: it left its loop on a nil, not on a panic.
EvictedLeaves(w) ==
    loop[w] = "exit" /\ ~panicked[w] /\ loop'[w] = "cachePut"

Free == Cap - running

\* Exactly Cap Submit calls were made on a pool never released, and all of
\* them have returned.
CapSubmitted ==
    /\ once = "new"
    /\ nextTask = Cap + 1
    /\ \A c \in Clients : pc[c] = "idle"

\* C15, the filling: after Cap tasks that are still running were submitted to
\* a pool built by NewTimePool, Running() = Cap and Free() = 0.
FilledAfterSubmission ==
    CapSubmitted /\ finished = {} => Running = Cap /\ Free = 0

\* C15, the draining: once the Cap tasks have ended, the pool does not come to
\* rest with workers still counted: they are evicted and Running() gets to 0.
DrainedAtRest ==
    CapSubmitted /\ finished = 1..Cap /\ Quiescent => Running = 0

AskedExpire == IF call.fn = "NewPool" THEN DefaultExpire ELSE call.expire

\* The number c is the value of the int x.
IsValue(c, x) == x.hi \in -32768..32767 /\ c = x.hi * Half + x.lo

\* A returned pool is open, with p.running 0 and no idle worker.
FreshPool == ~IsClosed /\ running = 0 /\ workers = <<>>

\* C17: a constructor fails with ErrorInValidCap when the capacity is not
\* positive, whatever the expiry, and with ErrorInValidExpire when the capacity
\* is positive and the expiry is not, returning no pool; otherwise it returns
\* an open, empty pool with the given capacity and the given expiry, which is
\* DefaultExpire for NewPool.
C17_Construction ==
    call.out # Pending =>
        /\ NotPositive(call.cap) =>
             call.out.err = "ErrorInValidCap" /\ ~call.out.pool
        /\ ~NotPositive(call.cap) /\ AskedExpire <= 0 =>
             call.out.err = "ErrorInValidExpire" /\ ~call.out.pool
        /\ ~NotPositive(call.cap) /\ AskedExpire > 0 =>
             /\ call.out.err = "nil" /\ call.out.pool
             /\ IsValue(call.out.cap, call.cap)
             /\ call.out.expire = AskedExpire
             /\ FreshPool

\* The same for the capacities that an int32 holds.
ConstructionWithinInt32 ==
    call.cap.hi < 32768 => C17_Construction

\* Client c takes a step of a call of Release.
ReleaseStep(c) ==
    \/ pc[c] = "idle" /\ pc'[c] \in {"teardown", "onceWait"}
    \/ InRelease(c) /\ pc'[c] # pc[c]
    \/ ReleaseReturns(c)

Cleared == {w \in 1..nworkers : ~wref[w]}

InFlight(w) ==
    ({slot[w][i] : i \in 1..Len(slot[w])} \ {NilTask})
        \cup (IF cur[w] = NilTask THEN {} ELSE {cur[w]})

Acquires(c) ==
    \/ pc[c] = "GetWorker" /\ pc'[c] # "GetWorker"
    \/ pc[c] = "condWait" /\ pc'[c] # "condWait"

LeavesReadyWorker(c) == pc[c] = "readyWorker" /\ pc'[c] # "readyWorker"

\* C22: with the idle list empty and p.running below the capacity the
\* acquisition returns a usable worker whose loop is started and p.running is
\* one more, whether the cache held a worker or not, the first Submit on a new
\* pool included.
C22_MakesWorkerBelowCap ==
    [][\A c \in Clients :
         LeavesReadyWorker(c) =>
            /\ pc'[c] = "send"
            /\ held'[c] # NoWorker
            /\ loop'[held'[c]] = "recv"
            /\ wref'[held'[c]]
            /\ running' = running + 1]_vars

\* The steps of a goroutine whose task returned: f() returns and PutWorker
\* stamps the worker; PutWorker's critical section ends.
TaskReturns(w) == loop[w] = "exec" /\ loop'[w] = "PutWorker"
PutWorkerEnds(w) == loop[w] = "PutWorker" /\ loop'[w] # "PutWorker"

ReceivesNil(w) ==
    /\ loop[w] = "recv" /\ slot[w] # <<>> /\ Head(slot[w]) = NilTask
    /\ loop'[w] # "recv"
\* w is in the idle list.
InIdleList(w) == \E i \in 1..Len(workers) : workers[i] = w

RecoveryPending(w) == panicked[w] \/ tail[w] = "recover"

\* The goroutine of w runs decRunning or workerCache.Put in this step.
FreesSlotOrObject(w) ==
    \/ loop[w] = "exit" /\ loop'[w] # "exit"
    \/ loop[w] = "cachePut" /\ loop'[w] # "cachePut"

ReaperTick(r) ==
    /\ rpc[r] = "on" /\ now >= rnext[r] /\ release = 0
    /\ rnext'[r] # rnext[r] \/ rpc'[r] # rpc[r]

FairSpec == Spec /\ Fairness

\* C28: every call to Restart returns true, also when several callers invoke
\* it at once on a closed pool: a caller that found the pool closed and went
\* on to receive the close signal gets its return.
C28_RestartReturns ==
    \A c \in Clients :
        pc[c] = "restartRecv" ~> (pc[c] = "idle" /\ ret[c] = "true")

\* The workers whose loop was started by run() and has not yet run the
\* decRunning of its exit path.
Started == {w \in Workers : loop[w] \in {"recv", "exec", "PutWorker", "exit"}}

====
